---- MODULE Spec2Model ----
(***************************************************************************)
(* Model of the cartog tile grid (latest variant of grid.go and main.go):  *)
(* the TileGrid state, the per-tile goroutines spawned by SetLocation, the *)
(* zoom cancellation of Move / CancelLoadingTiles, the fetch worker of     *)
(* handleTileLoading / fetchTile, the answers of package tile, the GL work  *)
(* executed by the main loop and the shutdown of main.  Coordinates are    *)
(* whole pixels; the float32 halving of Coord.Add is exact on the values   *)
(* the model lets it act on (see AddExact).                                *)
(***************************************************************************)
EXTENDS Integers, Sequences, FiniteSets, Bags, TLC

\* ---------------------------------------------------------------- constants
MAX_ZOOM == 16
MIN_ZOOM == 2
TILE_X == 256
TILE_Y == 256

\* ------------------------------------------------------------------- bounds
\* Number of Move calls the delta consumer receives while the goroutines run.
MaxMoves == 1
\* Number of Move calls of the delta consumer when it is followed alone.
MaxCalls == 3
\* Magnitude of the large zoom delta (a scroll of more than the zoom range).
BigZoom == 20
\* Viewport side of at most half a tile: forEachVisibleTile scans 2 x 2 cells.
ViewSize == 100
\* A Move is issued while at most MaxLive goroutines of earlier scans run.
MaxLive == 4
\* Number of tiles loaded when the loads run one at a time.
MaxLoads == 3
\* Number of pans between those loads.
MaxPans == 1
\* Number of keys requested from the tile server when the main loop is followed.
MaxFetches == 2
\* Number of live goroutines and fetches at which a window event still arrives,
\* when the window is also resized.
MaxBusy == 2

VARIABLES
    location,        \* TileGrid.location, a Coord [X, Y, Z]
    viewWidth,       \* TileGrid.viewWidth
    viewHeight,      \* TileGrid.viewHeight
    ViewTileWidth,   \* TileGrid.ViewTileWidth
    ViewTileHeight,  \* TileGrid.ViewTileHeight
    cache,           \* TileGrid.cache: function TileCoord -> PngTile
    loading,         \* TileGrid.loading: the set of keys stored in the map
    gos,             \* bag of the goroutines of SetLocation, [key, pc]
    fetches,         \* bag of the fetch goroutines of handleTileLoading
    mv,              \* the delta consumer inside Move: [pc, delta, todo, atStart]
    nextTexture,     \* next texture name gl.GenTextures hands out
    moves,           \* number of Move calls so far
    hist,            \* the Move calls so far: [from, delta], from the location
                     \* the call found
    main             \* the main goroutine, the worker of handleTileLoading and
                     \* the channels of the grid: [pc, ran, worker, closed,
                     \* closes, panicked]

vars == <<location, viewWidth, viewHeight, ViewTileWidth, ViewTileHeight,
          cache, loading, gos, fetches, mv, nextTexture, moves, hist, main>>

view == <<viewWidth, viewHeight, ViewTileWidth, ViewTileHeight>>

\* ---------------------------------------------------------- Coordinate model
Coord(x, y, z) == [X |-> x, Y |-> y, Z |-> z]

TileCoord(x, y, z) == [X |-> x, Y |-> y, Z |-> z]

\* Add with the lower clamp of the zoom left out.
AddNoLowerClamp(c, a) ==
    LET x == c.X + a.X
        y == c.Y + a.Y
        z == IF a.Z # 0 THEN c.Z + a.Z ELSE c.Z
    IN Coord(IF a.Z < 0 THEN x \div 2 ELSE IF a.Z > 0 THEN x * 2 ELSE x,
             IF a.Z < 0 THEN y \div 2 ELSE IF a.Z > 0 THEN y * 2 ELSE y,
             IF z > MAX_ZOOM THEN MAX_ZOOM ELSE z)

\* Add that leaves the pan offset unscaled when the zoom is clamped.
AddScaleUnlessClamped(c, a) ==
    LET x == c.X + a.X
        y == c.Y + a.Y
        z == IF a.Z # 0 THEN c.Z + a.Z ELSE c.Z
        scaled == MIN_ZOOM <= z /\ z <= MAX_ZOOM
    IN Coord(IF a.Z < 0 /\ scaled THEN x \div 2 ELSE IF a.Z > 0 /\ scaled THEN x * 2 ELSE x,
             IF a.Z < 0 /\ scaled THEN y \div 2 ELSE IF a.Z > 0 /\ scaled THEN y * 2 ELSE y,
             IF z > MAX_ZOOM THEN MAX_ZOOM
             ELSE IF z < MIN_ZOOM THEN MIN_ZOOM ELSE z)

\* Coord.Add: pan, then scale on a zoom delta, then clamp the zoom.
Add(c, a) ==
    LET x == c.X + a.X
        y == c.Y + a.Y
        z == IF a.Z # 0 THEN c.Z + a.Z ELSE c.Z
    IN Coord(IF a.Z < 0 THEN x \div 2 ELSE IF a.Z > 0 THEN x * 2 ELSE x,
             IF a.Z < 0 THEN y \div 2 ELSE IF a.Z > 0 THEN y * 2 ELSE y,
             IF z > MAX_ZOOM THEN MAX_ZOOM
             ELSE IF z < MIN_ZOOM THEN MIN_ZOOM ELSE z)

\* The float32 halving of Add is exact; the whole-pixel halving is on even sums.
AddExact(c, a) == a.Z < 0 => ((c.X + a.X) % 2 = 0 /\ (c.Y + a.Y) % 2 = 0)

\* The tile index without the clamp of a negative quotient.
TileIndexNoClamp(x, w) == x \div w

\* uint32(x / tileWidth) after the clamp of a negative quotient to 0.
TileIndex(x, w) == IF x < 0 THEN 0 ELSE x \div w

\* Number of iterations of  for v := v1; v < v1 + span; v += step.
CellCount(span, step) == (span + step - 1) \div step

\* The scan without the half tile past the far edge of the viewport.
forEachVisibleTileNoMargin(loc, vw, vh) ==
    LET x1 == loc.X - TILE_X
        y1 == loc.Y - TILE_Y
        nx == CellCount(TILE_X + vw, TILE_X)
        ny == CellCount(TILE_Y + vh, TILE_Y)
    IN [i \in 1..(nx * ny) |->
          TileCoord(TileIndex(x1 + ((i - 1) \div ny) * TILE_X, TILE_X),
                    TileIndex(y1 + ((i - 1) % ny) * TILE_Y, TILE_Y),
                    loc.Z)]

\* forEachVisibleTile: the keys in the order f is called on them.
forEachVisibleTile(loc, vw, vh) ==
    LET x1 == loc.X - TILE_X
        y1 == loc.Y - TILE_Y
        nx == CellCount(TILE_X + TILE_X \div 2 + vw, TILE_X)
        ny == CellCount(TILE_Y + TILE_Y \div 2 + vh, TILE_Y)
    IN [i \in 1..(nx * ny) |->
          TileCoord(TileIndex(x1 + ((i - 1) \div ny) * TILE_X, TILE_X),
                    TileIndex(y1 + ((i - 1) % ny) * TILE_Y, TILE_Y),
                    loc.Z)]

\* -------------------------------------------------------------------- helpers
BagOfSeq(s) ==
    LET els == {s[i] : i \in DOMAIN s}
    IN [e \in els |-> Cardinality({i \in DOMAIN s : s[i] = e})]

One(e) == SetToBag({e})

\* A goroutine of SetLocation: its tileCoord and the statement it is at.
Go(k, pc) == [key |-> k, pc |-> pc]

\* The goroutines one SetLocation(loc) starts, one per call of f.
Spawned(loc, vw, vh) ==
    LET keys == forEachVisibleTile(loc, vw, vh)
    IN BagOfSeq([i \in DOMAIN keys |-> Go(keys[i], "load")])

\* ------------------------------------------------------------------ TileGrid
\* A Resize that also requests the tiles of the new viewport.
ResizeReload(w, h) ==
    /\ viewWidth' = w
    /\ viewHeight' = h
    /\ ViewTileWidth' = w \div TILE_X
    /\ ViewTileHeight' = h \div TILE_Y
    /\ gos' = gos (+) Spawned(location, w, h)
    /\ UNCHANGED <<location, cache, loading, fetches, mv, nextTexture, moves, hist, main>>

\* Resize, called by the resize callback of the window: the viewport size and
\* the whole tiles across it.
Resize(w, h) ==
    /\ viewWidth' = w
    /\ viewHeight' = h
    /\ ViewTileWidth' = w \div TILE_X
    /\ ViewTileHeight' = h \div TILE_Y
    /\ UNCHANGED <<location, cache, loading, gos, fetches, mv, nextTexture, moves, hist, main>>

\* GetLocation: a pointer to t.location, read by the main loop with no
\* synchronisation; what it reads is the location of the moment.
GetLocation == location

\* SetLocation: overwrite the location, start one goroutine per visible cell.
SetLocation(loc) ==
    /\ location' = loc
    /\ gos' = gos (+) Spawned(loc, viewWidth, viewHeight)

\* cache.Store that keeps an entry the map already holds.
StoreIfAbsent(m, coord, tile) ==
    [k \in DOMAIN m \cup {coord} |-> IF k \in DOMAIN m THEN m[k] ELSE tile]

\* cache.Store(coord, tile)
Store(m, coord, tile) ==
    [k \in DOMAIN m \cup {coord} |-> IF k = coord THEN tile ELSE m[k]]

\* cache.Delete(coord)
Delete(m, coord) == [k \in DOMAIN m \ {coord} |-> m[k]]

\* SetTile without the loading.Delete.
SetTileKeepLoading(coord, tile) ==
    /\ loading' = loading
    /\ cache' = Store(cache, coord, tile)

\* SetTile: loading.Delete(coord); cache.Store(coord, tile).
SetTile(coord, tile) ==
    /\ loading' = loading \ {coord}
    /\ cache' = Store(cache, coord, tile)

\* tile.PngTile: the key of the tile and the name of its GL texture.
PngTile(k, texture) == [Tile |-> k, Texture |-> texture]

\* Drawable that pads the cells whose key the cache does not hold.
DrawablePadded(loc, vw, vh, c) ==
    LET keys == forEachVisibleTile(loc, vw, vh)
    IN [i \in DOMAIN keys |->
          IF keys[i] \in DOMAIN c THEN c[keys[i]] ELSE PngTile(keys[i], 0)]

\* Drawable: the scan appends the cache entry of every cell whose key the
\* cache holds.
Drawable(loc, vw, vh, c) ==
    LET keys == forEachVisibleTile(loc, vw, vh)
        RECURSIVE Collect(_)
        Collect(n) ==
            IF n = 0 THEN << >>
            ELSE IF keys[n] \in DOMAIN c
                 THEN Append(Collect(n - 1), c[keys[n]])
                 ELSE Collect(n - 1)
    IN Collect(Len(keys))

\* main has started the worker and the delta consumer and is at the head of
\* its loop; handleTileLoading is in its range over TilesToLoad; no channel of
\* the grid is closed.
Started == [pc |-> "poll", ran |-> 0, worker |-> "range", closed |-> FALSE,
            closes |-> 0, panicked |-> FALSE]

Idle == [pc |-> "idle", delta |-> Coord(0, 0, 0), todo |-> {}, atStart |-> {}]

\* if tileWidth == 0 || tileHeight == 0 { return nil, errors.New(...) }: the
\* only parameters NewTileGrid rejects.
NewTileGridError(tileWidth, tileHeight, w, h) == tileWidth = 0 \/ tileHeight = 0

\* NewTileGrid(origin, TILE_X, TILE_Y, w, h): Resize, then SetLocation(origin).
NewTileGrid(origin, w, h) ==
    /\ location = origin
    /\ viewWidth = w
    /\ viewHeight = h
    /\ ViewTileWidth = w \div TILE_X
    /\ ViewTileHeight = h \div TILE_Y
    /\ cache = << >>
    /\ loading = {}
    /\ gos = Spawned(origin, w, h)
    /\ fetches = EmptyBag
    /\ mv = Idle
    /\ nextTexture = 1
    /\ moves = 0
    /\ hist = << >>
    /\ main = Started

\* ------------------------------------------------------------- package tile
\* A nil pointer, and a pointer to v.
Nil == << >>

Ptr(v) == <<v>>

\* The server's answer to one request: the HTTP status (0: client.Do returned
\* an error) and whether the body decodes as a PNG.
Response(status, png) == [status |-> status, png |-> png]

Responses == {Response(200, TRUE), Response(200, FALSE), Response(404, FALSE),
              Response(403, FALSE), Response(410, FALSE), Response(414, FALSE),
              Response(500, FALSE), Response(0, FALSE)}

\* EmptyPngTile: the gray placeholder tile of the given key.
EmptyPngTile(x, y, z) ==
    [tile |-> Ptr([Tile |-> TileCoord(x, y, z), Image |-> "gray", Texture |-> 0]),
     err |-> "nil"]

\* NewPngTile: png.Decode of the body, then the tile of the given key with no
\* texture (Texture 0 is the nil pointer).
NewPngTile(x, y, z, png) ==
    IF ~png THEN [tile |-> Nil, err |-> "png.Decode"]
    ELSE [tile |-> Ptr([Tile |-> TileCoord(x, y, z), Image |-> "png", Texture |-> 0]),
          err |-> "nil"]

\* getPngTileFromAPI with a placeholder tile on status 404.
getPngTileFromAPIEmpty(cancelled, x, y, z, resp) ==
    IF cancelled THEN [tile |-> Nil, err |-> "context canceled"]
    ELSE IF resp.status = 0 THEN [tile |-> Nil, err |-> "transport"]
    ELSE IF resp.status = 404 THEN EmptyPngTile(x, y, z)
    ELSE IF resp.status = 403 THEN [tile |-> Nil, err |-> "Forbidden"]
    ELSE IF resp.status = 410 THEN [tile |-> Nil, err |-> "Gone"]
    ELSE IF resp.status = 414 THEN [tile |-> Nil, err |-> "RequestURITooLong"]
    ELSE IF resp.status = 200 THEN NewPngTile(x, y, z, resp.png)
    ELSE [tile |-> Nil, err |-> "UnexpectedStatusCode"]

\* getPngTileFromAPI (tile.Tile calls it on the default datasource): the
\* request is bound to ctx, so client.Do fails once ctx is cancelled; then
\* the switch over the status code.
getPngTileFromAPI(cancelled, x, y, z, resp) ==
    IF cancelled THEN [tile |-> Nil, err |-> "context canceled"]
    ELSE IF resp.status = 0 THEN [tile |-> Nil, err |-> "transport"]
    ELSE IF resp.status = 404 THEN [tile |-> Nil, err |-> "NotFound"]
    ELSE IF resp.status = 403 THEN [tile |-> Nil, err |-> "Forbidden"]
    ELSE IF resp.status = 410 THEN [tile |-> Nil, err |-> "Gone"]
    ELSE IF resp.status = 414 THEN [tile |-> Nil, err |-> "RequestURITooLong"]
    ELSE IF resp.status = 200 THEN NewPngTile(x, y, z, resp.png)
    ELSE [tile |-> Nil, err |-> "UnexpectedStatusCode"]

\* fetchTile: (nil, nil) when tile.Tile failed on a cancelled context, else
\* what tile.Tile returned.
fetchTile(cancelled, x, y, z, resp) ==
    LET r == getPngTileFromAPI(cancelled, x, y, z, resp)
    IN IF r.err # "nil"
       THEN IF cancelled THEN [tile |-> Nil, err |-> "nil"]
            ELSE [tile |-> Nil, err |-> r.err]
       ELSE r

\* --------------------------------------------- the goroutines of SetLocation
\* A goroutine that returns at once, as if the key were always loading.
GoCheckLoadingReturn(g) ==
    /\ BagIn(g, gos) /\ g.pc = "load"
    /\ gos' = gos (-) One(g)
    /\ UNCHANGED <<location, view, cache, loading, fetches, mv, nextTexture, moves, hist, main>>

\* _, exists := t.loading.Load(tileCoord); if exists { return }
GoCheckLoading(g) ==
    /\ BagIn(g, gos) /\ g.pc = "load"
    /\ gos' = IF g.key \in loading THEN gos (-) One(g)
              ELSE (gos (-) One(g)) (+) One(Go(g.key, "cache"))
    /\ UNCHANGED <<location, view, cache, loading, fetches, mv, nextTexture, moves, hist, main>>

\* _, exists = t.cache.Load(tileCoord); if exists { return }
GoCheckCache(g) ==
    /\ BagIn(g, gos) /\ g.pc = "cache"
    /\ gos' = IF g.key \in DOMAIN cache THEN gos (-) One(g)
              ELSE (gos (-) One(g)) (+) One(Go(g.key, "store"))
    /\ UNCHANGED <<location, view, cache, loading, fetches, mv, nextTexture, moves, hist, main>>

\* t.loading.Store(tileCoord, true)
GoStore(g) ==
    /\ BagIn(g, gos) /\ g.pc = "store"
    /\ loading' = loading \cup {g.key}
    /\ gos' = (gos (-) One(g)) (+) One(Go(g.key, "send"))
    /\ UNCHANGED <<location, view, cache, fetches, mv, nextTexture, moves, hist, main>>

\* t.TilesToLoad <- tileCoord: the goroutine is parked in the send until a
\* receiver takes its key.
GoPark(g) ==
    /\ BagIn(g, gos) /\ g.pc = "send"
    /\ gos' = (gos (-) One(g)) (+) One(Go(g.key, "parked"))
    /\ UNCHANGED <<location, view, cache, loading, fetches, mv, nextTexture, moves, hist, main>>

\* ------------------------------------------ handleTileLoading and fetchTile
\* A fetch goroutine: st is "fetch" inside tile.Tile and "gl" inside doWork;
\* helper is the goroutine offering cancelCtx on TilesInFlight; pre marks the
\* fetches that were inside tile.Tile when the running zoom Move began.
Fetch(k, st, cancelled, helper, pre) ==
    [key |-> k, st |-> st, cancelled |-> cancelled, helper |-> helper, pre |-> pre]

\* The fetches inside tile.Tile are marked when a zoom Move begins (no fetch
\* is marked outside a zoom Move).
MarkPre(fs) ==
    [f \in {[x EXCEPT !.pre = (x.st = "fetch")] : x \in BagToSet(fs)} |->
        fs[[f EXCEPT !.pre = FALSE]]]

\* The marks are dropped when the zoom Move ends.
ClearPre(fs) ==
    [f \in {[x EXCEPT !.pre = FALSE] : x \in BagToSet(fs)} |->
        CopiesIn([f EXCEPT !.pre = FALSE], fs) + CopiesIn([f EXCEPT !.pre = TRUE], fs)]

\* for t := range grid.TilesToLoad { go func(t) {...}(t) }: the worker takes
\* the key of a parked sender and starts the fetch goroutine; fetchTile
\* creates the context and starts the helper.
WorkerReceive(g) ==
    /\ BagIn(g, gos) /\ g.pc = "parked"
    /\ gos' = gos (-) One(g)
    /\ fetches' = fetches (+) One(Fetch(g.key, "fetch", FALSE, "start", FALSE))
    /\ UNCHANGED <<location, view, cache, loading, mv, nextTexture, moves, hist, main>>

\* go func() { cancel <- cancelCtx }(): the helper is parked in its send.
HelperPark(f) ==
    /\ BagIn(f, fetches) /\ f.st = "fetch" /\ f.helper = "start"
    /\ fetches' = (fetches (-) One(f)) (+) One([f EXCEPT !.helper = "parked"])
    /\ UNCHANGED <<location, view, cache, loading, gos, mv, nextTexture, moves, hist, main>>

\* tile.Tile returning its tile whether or not the context was cancelled.
FetchOkAfterCancel(f) ==
    /\ BagIn(f, fetches) /\ f.st = "fetch"
    /\ fetches' = (fetches (-) One(f)) (+)
                  One([f EXCEPT !.st = "gl", !.helper = "done", !.pre = FALSE])
    /\ UNCHANGED <<location, view, cache, loading, gos, mv, nextTexture, moves, hist, main>>

\* tile.Tile returns a tile (its Texture is nil): the goroutine calls doWork.
\* From here on the cancel function has no effect on the fetch, and the
\* helper is no longer followed: receiving its cancelCtx changes nothing.
FetchOk(f) ==
    /\ BagIn(f, fetches) /\ f.st = "fetch" /\ ~f.cancelled
    /\ fetches' = (fetches (-) One(f)) (+) One(Fetch(f.key, "gl", FALSE, "done", FALSE))
    /\ UNCHANGED <<location, view, cache, loading, gos, mv, nextTexture, moves, hist, main>>

\* tile.Tile returns an error on a live context: fetchTile returns (nil, err),
\* the goroutine logs "fetch error" and returns.
FetchError(f) ==
    /\ BagIn(f, fetches) /\ f.st = "fetch" /\ ~f.cancelled
    /\ fetches' = fetches (-) One(f)
    /\ UNCHANGED <<location, view, cache, loading, gos, mv, nextTexture, moves, hist, main>>

\* tile.Tile returns the error of the cancelled context: fetchTile returns
\* (nil, nil) and the goroutine returns on pngTile == nil.
FetchCancelled(f) ==
    /\ BagIn(f, fetches) /\ f.st = "fetch" /\ f.cancelled
    /\ fetches' = fetches (-) One(f)
    /\ UNCHANGED <<location, view, cache, loading, gos, mv, nextTexture, moves, hist, main>>

\* ------------------------------------------------- GL work on the main loop

\* case f := <-glWorkPipeline: f() -- loadTexture succeeds, the texture is
\* attached and grid.SetTile(t, *pngTile) is called; doWork then returns.
GLWorkOk(f) ==
    /\ BagIn(f, fetches) /\ f.st = "gl"
    /\ SetTile(f.key, PngTile(f.key, nextTexture))
    /\ nextTexture' = nextTexture + 1
    /\ fetches' = fetches (-) One(f)
    /\ UNCHANGED <<location, view, gos, mv, moves, hist, main>>

\* The closure returns early on the error of loadTexture.
GLWorkError(f) ==
    /\ BagIn(f, fetches) /\ f.st = "gl"
    /\ fetches' = fetches (-) One(f)
    /\ UNCHANGED <<location, view, cache, loading, gos, mv, nextTexture, moves, hist, main>>

\* --------------------------------------------------------------------- Move
\* A pan that clears loading as a zoom change does.
MovePanCancel(delta) ==
    /\ mv.pc = "idle" /\ delta.Z = 0
    /\ SetLocation(Add(location, delta))
    /\ loading' = {}
    /\ moves' = moves + 1
    /\ hist' = Append(hist, [from |-> location, delta |-> delta])
    /\ UNCHANGED <<view, cache, fetches, mv, nextTexture, main>>

\* Move with delta.Z = 0: location.Add(delta), then SetLocation(t.location).
MovePan(delta) ==
    /\ mv.pc = "idle" /\ delta.Z = 0
    /\ SetLocation(Add(location, delta))
    /\ moves' = moves + 1
    /\ hist' = Append(hist, [from |-> location, delta |-> delta])
    /\ UNCHANGED <<view, cache, loading, fetches, mv, nextTexture, main>>

\* Move with delta.Z # 0, up to the call of CancelLoadingTiles.
MoveZoom(delta) ==
    /\ mv.pc = "idle" /\ delta.Z # 0
    /\ AddExact(location, delta)
    /\ location' = Add(location, delta)
    /\ mv' = [pc |-> "drain", delta |-> delta, todo |-> {}, atStart |-> loading]
    /\ fetches' = MarkPre(fetches)
    /\ moves' = moves + 1
    /\ hist' = Append(hist, [from |-> location, delta |-> delta])
    /\ UNCHANGED <<view, cache, loading, gos, nextTexture, main>>

\* The TilesToLoad case of the drain loop without its loading.Delete.
DrainLoadKeepLoading(g) ==
    /\ mv.pc = "drain"
    /\ BagIn(g, gos) /\ g.pc = "parked"
    /\ gos' = gos (-) One(g)
    /\ cache' = Delete(cache, g.key)
    /\ UNCHANGED <<location, view, loading, fetches, mv, nextTexture, moves, hist, main>>

\* case l := <-t.TilesToLoad: loading.Delete(l); cache.Delete(l)
DrainLoad(g) ==
    /\ mv.pc = "drain"
    /\ BagIn(g, gos) /\ g.pc = "parked"
    /\ gos' = gos (-) One(g)
    /\ loading' = loading \ {g.key}
    /\ cache' = Delete(cache, g.key)
    /\ UNCHANGED <<location, view, fetches, mv, nextTexture, moves, hist, main>>

\* case cancel := <-t.TilesInFlight: cancel()
DrainCancel(f) ==
    /\ mv.pc = "drain"
    /\ BagIn(f, fetches) /\ f.helper = "parked"
    /\ fetches' = (fetches (-) One(f)) (+)
                  One([f EXCEPT !.helper = "done", !.cancelled = TRUE])
    /\ UNCHANGED <<location, view, cache, loading, gos, mv, nextTexture, moves, hist, main>>

\* The select without its default case: with no sender parked the loop
\* waits and takes no step.
DrainBlocked ==
    /\ FALSE
    /\ UNCHANGED <<location, view, cache, loading, gos, fetches, mv, nextTexture, moves, hist, main>>

\* default: goto drained -- taken only when no sender is parked on either
\* channel; loading.Range then visits the keys the map holds.
DrainDefault ==
    /\ mv.pc = "drain"
    /\ \A g \in BagToSet(gos) : g.pc # "parked"
    /\ \A f \in BagToSet(fetches) : f.helper # "parked"
    /\ mv' = [mv EXCEPT !.pc = "range", !.todo = loading]
    /\ UNCHANGED <<location, view, cache, loading, gos, fetches, nextTexture, moves, hist, main>>

\* loading.Range visiting a key without deleting it.
RangeVisit(k) ==
    /\ mv.pc = "range" /\ k \in mv.todo
    /\ mv' = [mv EXCEPT !.todo = mv.todo \ {k}]
    /\ UNCHANGED <<location, view, cache, loading, gos, fetches, nextTexture, moves, hist, main>>

\* One call of the function given to loading.Range: loading.Delete(key).
RangeDelete(k) ==
    /\ mv.pc = "range" /\ k \in mv.todo
    /\ loading' = loading \ {k}
    /\ mv' = [mv EXCEPT !.todo = mv.todo \ {k}]
    /\ UNCHANGED <<location, view, cache, gos, fetches, nextTexture, moves, hist, main>>

\* A shift of a quarter of the tiles across the viewport in both directions.
RecenterQuarter(delta) ==
    IF delta.Z < 0
    THEN Coord(-((ViewTileWidth * TILE_X) \div 4), -((ViewTileHeight * TILE_Y) \div 4), 0)
    ELSE Coord((ViewTileWidth * TILE_X) \div 4, (ViewTileHeight * TILE_Y) \div 4, 0)

\* The shift Move adds once CancelLoadingTiles has returned.
Recenter(delta) ==
    IF delta.Z < 0
    THEN Coord(-((ViewTileWidth * TILE_X) \div 4), -((ViewTileHeight * TILE_Y) \div 4), 0)
    ELSE Coord((ViewTileWidth * TILE_X) \div 2, (ViewTileHeight * TILE_Y) \div 2, 0)

\* CancelLoadingTiles has returned: re-center, then SetLocation(t.location).
MoveZoomEnd ==
    /\ mv.pc = "range" /\ mv.todo = {}
    /\ SetLocation(Add(location, Recenter(mv.delta)))
    /\ mv' = Idle
    /\ fetches' = ClearPre(fetches)
    /\ UNCHANGED <<view, cache, loading, nextTexture, moves, hist, main>>

\* The goroutines of SetLocation and of the fetch worker that have not ended.
Live == BagCardinality(gos) + BagCardinality(fetches)

\* ------------------------------------------------------------ specifications
\* The program: one grid at zoom MIN_ZOOM over the origin tile, whose four
\* visible cells are the same key, and a delta consumer that zooms out or pans
\* by two pixels (the visible key stays the same).
Origins == {Coord(0, 0, MIN_ZOOM)}

Deltas == {Coord(0, 0, -1), Coord(2, 0, 0)}

Init == \E origin \in Origins : NewTileGrid(origin, ViewSize, ViewSize)

Next ==
    \/ \E g \in BagToSet(gos) : GoCheckLoading(g)
    \/ \E g \in BagToSet(gos) : GoCheckCache(g)
    \/ \E g \in BagToSet(gos) : GoStore(g)
    \/ \E g \in BagToSet(gos) : GoPark(g)
    \/ \E g \in BagToSet(gos) : WorkerReceive(g)
    \/ \E f \in BagToSet(fetches) : HelperPark(f)
    \/ \E f \in BagToSet(fetches) : FetchOk(f)
    \/ \E f \in BagToSet(fetches) : FetchError(f)
    \/ \E f \in BagToSet(fetches) : FetchCancelled(f)
    \/ \E f \in BagToSet(fetches) : GLWorkOk(f)
    \/ \E f \in BagToSet(fetches) : GLWorkError(f)
    \/ \E delta \in Deltas :
          moves < MaxMoves /\ Live <= MaxLive /\ MovePan(delta)
    \/ \E delta \in Deltas :
          moves < MaxMoves /\ Live <= MaxLive /\ MoveZoom(delta)
    \/ \E g \in BagToSet(gos) : DrainLoad(g)
    \/ \E f \in BagToSet(fetches) : DrainCancel(f)
    \/ DrainDefault
    \/ \E k \in mv.todo : RangeDelete(k)
    \/ MoveZoomEnd

Spec == Init /\ [][Next]_vars

\* A step of the delta consumer inside a zoom Move.
MoveStep ==
    \/ \E g \in BagToSet(gos) : DrainLoad(g)
    \/ \E f \in BagToSet(fetches) : DrainCancel(f)
    \/ DrainDefault
    \/ \E k \in mv.todo : RangeDelete(k)
    \/ MoveZoomEnd

\* The program with the delta consumer scheduled: a Move that can take a step
\* eventually takes one. Nothing is assumed of the other goroutines, of the
\* fetch worker or of the main loop.
SpecFair == Spec /\ WF_vars(MoveStep)

\* The program with every fetch and every texture upload succeeding: tile.Tile
\* fails only on a cancelled context and loadTexture never.
Progress ==
    \/ \E g \in BagToSet(gos) : GoCheckLoading(g)
    \/ \E g \in BagToSet(gos) : GoCheckCache(g)
    \/ \E g \in BagToSet(gos) : GoStore(g)
    \/ \E g \in BagToSet(gos) : GoPark(g)
    \/ \E g \in BagToSet(gos) : WorkerReceive(g)
    \/ \E f \in BagToSet(fetches) : HelperPark(f)
    \/ \E f \in BagToSet(fetches) : FetchOk(f)
    \/ \E f \in BagToSet(fetches) : FetchCancelled(f)
    \/ \E f \in BagToSet(fetches) : GLWorkOk(f)
    \/ \E g \in BagToSet(gos) : DrainLoad(g)
    \/ \E f \in BagToSet(fetches) : DrainCancel(f)
    \/ DrainDefault
    \/ \E k \in mv.todo : RangeDelete(k)
    \/ MoveZoomEnd

\* The sizes the window takes: the one the grid is built with and a wider one
\* that shows one more column of tiles.
OkViews == {<<ViewSize, ViewSize>>, <<3 * ViewSize, ViewSize>>}

\* Window events (a delta, a resize) arrive while at most MaxBusy goroutines
\* and fetches are live.
NextOk ==
    \/ Progress
    \/ \E v \in OkViews : Live <= MaxBusy /\ Resize(v[1], v[2])
    \/ \E delta \in Deltas :
          moves < MaxMoves /\ Live <= MaxBusy /\ MovePan(delta)
    \/ \E delta \in Deltas :
          moves < MaxMoves /\ Live <= MaxBusy /\ MoveZoom(delta)

\* Every goroutine, the worker and the main loop are scheduled; the delta
\* consumer receives a delta or not, the window is resized or not.
SpecOk == Init /\ [][NextOk]_vars /\ WF_vars(Progress)

\* The delta consumer followed alone, over grids of several origins and
\* viewports and deltas of every sign: the goroutines it starts are not
\* scheduled, so no sender is parked and loading stays empty.
MoveOrigins == {Coord(0, 0, 6), Coord(31 * TILE_X, 22 * TILE_Y, 6),
                Coord(0, 0, 0), Coord(TILE_X, TILE_Y, 20)}

MoveViews == {<<ViewSize, ViewSize>>, <<512, 512>>, <<800, 600>>, <<0, 512>>}

MoveDeltas == {Coord(TILE_X, 0, 0), Coord(-TILE_X, -6, 0), Coord(0, 0, 0),
               Coord(0, 0, -1), Coord(0, 0, 1), Coord(4, 2, -BigZoom),
               Coord(0, TILE_Y, BigZoom)}

InitMove ==
    \E origin \in MoveOrigins : \E v \in MoveViews :
        /\ ~NewTileGridError(TILE_X, TILE_Y, v[1], v[2])
        /\ NewTileGrid(origin, v[1], v[2])

NextMove ==
    \/ \E delta \in MoveDeltas : moves < MaxCalls /\ MovePan(delta)
    \/ \E delta \in MoveDeltas : moves < MaxCalls /\ MoveZoom(delta)
    \/ DrainDefault
    \/ MoveZoomEnd

SpecMove == InitMove /\ [][NextMove]_vars

\* One goroutine of SetLocation and the fetch of its key run from the first
\* check to SetTile with no other step in between: the key is in neither
\* map, the fetch and loadTexture succeed.
LoadTile(g) ==
    /\ BagIn(g, gos) /\ g.pc = "load"
    /\ mv.pc = "idle"
    /\ g.key \notin loading /\ g.key \notin DOMAIN cache
    /\ gos' = gos (-) One(g)
    /\ SetTile(g.key, PngTile(g.key, nextTexture))
    /\ nextTexture' = nextTexture + 1
    /\ UNCHANGED <<location, view, fetches, mv, moves, hist, main>>

\* The grid with some tiles loaded, the location panned and the window
\* resized: loads run one at a time between the calls.
TileOrigins == {Coord(0, 0, 6), Coord(TILE_X + 40, 2 * TILE_Y, 6)}

TileViews == {ViewSize, 300}

TileDeltas == {Coord(TILE_X, 0, 0), Coord(0, -TILE_Y, 0)}

InitTiles == \E origin \in TileOrigins : \E w \in TileViews : NewTileGrid(origin, w, w)

NextTiles ==
    \/ \E g \in BagToSet(gos) : nextTexture <= MaxLoads /\ LoadTile(g)
    \/ \E delta \in TileDeltas : moves < MaxPans /\ MovePan(delta)
    \/ \E w \in TileViews : Resize(w, w)

SpecTiles == InitTiles /\ [][NextTiles]_vars

\* The grid zoomed and panned with tiles loaded one at a time between the
\* calls: the cache holds tiles of the zoom levels the location has been at.
ZoomOrigins == {Coord(0, 0, 6)}

ZoomDeltas == {Coord(0, 0, -1), Coord(0, 0, 1), Coord(2 * TILE_X, 0, 0)}

InitZoom == \E origin \in ZoomOrigins : NewTileGrid(origin, ViewSize, ViewSize)

NextZoom ==
    \/ \E g \in BagToSet(gos) : nextTexture <= MaxLoads /\ LoadTile(g)
    \/ \E delta \in ZoomDeltas : moves < MaxCalls /\ MovePan(delta)
    \/ \E delta \in ZoomDeltas : moves < MaxCalls /\ MoveZoom(delta)
    \/ DrainDefault
    \/ MoveZoomEnd

SpecZoom == InitZoom /\ [][NextZoom]_vars

\* ------------------------------------------- the main loop and the shutdown
\* TileGrid.Close: the three channels are closed; close of a closed channel
\* panics.
Close(mn) ==
    [mn EXCEPT !.closed = TRUE, !.closes = @ + 1, !.panicked = @ \/ mn.closed]

\* A fetch goroutine that keeps the answer its request will get and, once
\* tile.Tile has returned, the tile.
Request(k, resp) ==
    [key |-> k, st |-> "fetch", cancelled |-> FALSE, helper |-> "parked",
     pre |-> FALSE, resp |-> resp, tile |-> Nil]

\* One iteration of  for t := range grid.TilesToLoad  in handleTileLoading.
\* On the closed channel the loop ends and the deferred grid.Close() runs.
\* Else a goroutine of SetLocation whose key is in neither map has stored it
\* in loading and sent it; the worker starts the fetch goroutine, which is
\* inside tile.Tile with its helper parked on TilesInFlight.
handleTileLoading ==
    /\ main.pc # "exit" /\ main.worker = "range"
    /\ IF main.closed
       THEN /\ main' = [Close(main) EXCEPT !.worker = "ended"]
            /\ UNCHANGED <<location, view, cache, loading, gos, fetches, mv,
                           nextTexture, moves, hist>>
       ELSE \E g \in BagToSet(gos) : \E resp \in Responses :
               /\ g.pc = "load"
               /\ g.key \notin loading /\ g.key \notin DOMAIN cache
               /\ Cardinality(loading \cup DOMAIN cache) < MaxFetches
               /\ gos' = gos (-) One(g)
               /\ loading' = loading \cup {g.key}
               /\ fetches' = fetches (+) One(Request(g.key, resp))
               /\ UNCHANGED <<location, view, cache, mv, nextTexture, moves,
                              hist, main>>

\* fetchTile returns in the goroutine of handleTileLoading: the goroutine
\* ends on an error, on a nil tile and on a tile that has a texture; else it
\* calls doWork and is parked in its send on glWorkPipeline.
FetchReturn(f) ==
    /\ main.pc # "exit"
    /\ BagIn(f, fetches) /\ f.st = "fetch"
    /\ LET r == fetchTile(f.cancelled, f.key.X, f.key.Y, f.key.Z, f.resp)
       IN fetches' =
             IF r.err # "nil" \/ r.tile = Nil \/ r.tile[1].Texture # 0
             THEN fetches (-) One(f)
             ELSE (fetches (-) One(f)) (+)
                  One([f EXCEPT !.st = "gl", !.helper = "done", !.tile = r.tile])
    /\ UNCHANGED <<location, view, cache, loading, gos, mv, nextTexture, moves,
                   hist, main>>

\* for !windowState.Window.ShouldClose(): the window was closed, main leaves
\* the loop.
MainShouldClose ==
    /\ main.pc = "poll"
    /\ main' = [main EXCEPT !.pc = "cleanup"]
    /\ UNCHANGED <<location, view, cache, loading, gos, fetches, mv,
                   nextTexture, moves, hist>>

\* case f := <-glWorkPipeline: main takes the closure of a goroutine parked in
\* doWork; that goroutine now waits on done.
MainReceive(f) ==
    /\ main.pc = "poll"
    /\ BagIn(f, fetches) /\ f.st = "gl"
    /\ fetches' = (fetches (-) One(f)) (+) One([f EXCEPT !.st = "run"])
    /\ main' = [main EXCEPT !.pc = "work", !.ran = @ + 1]
    /\ UNCHANGED <<location, view, cache, loading, gos, mv, nextTexture,
                   moves, hist>>

\* default: no goroutine is parked on glWorkPipeline.
MainDefault ==
    /\ main.pc = "poll"
    /\ \A f \in BagToSet(fetches) : f.st # "gl"
    /\ main' = [main EXCEPT !.pc = "draw"]
    /\ UNCHANGED <<location, view, cache, loading, gos, fetches, mv,
                   nextTexture, moves, hist>>

\* f() on main: loadTexture, pngTile.Texture = texture, grid.SetTile(t, *pngTile);
\* main is then in  done <- true.
MainRun(f) ==
    /\ main.pc = "work"
    /\ BagIn(f, fetches) /\ f.st = "run"
    /\ SetTile(f.key, [f.tile[1] EXCEPT !.Texture = nextTexture])
    /\ nextTexture' = nextTexture + 1
    /\ fetches' = (fetches (-) One(f)) (+) One([f EXCEPT !.st = "done"])
    /\ UNCHANGED <<location, view, gos, mv, moves, hist, main>>

\* f() with loadTexture returning its error: the closure returns early.
MainRunError(f) ==
    /\ main.pc = "work"
    /\ BagIn(f, fetches) /\ f.st = "run"
    /\ fetches' = (fetches (-) One(f)) (+) One([f EXCEPT !.st = "done"])
    /\ UNCHANGED <<location, view, cache, loading, gos, mv, nextTexture,
                   moves, hist, main>>

\* The closure that takes the next closure of the pipeline once it is done.
MainDoneAgain(f) ==
    /\ main.pc = "work"
    /\ BagIn(f, fetches) /\ f.st = "done"
    /\ fetches' = fetches (-) One(f)
    /\ main' = [main EXCEPT !.pc = "poll"]
    /\ UNCHANGED <<location, view, cache, loading, gos, mv, nextTexture,
                   moves, hist>>

\* done <- true meets <-done: doWork returns and the fetch goroutine ends;
\* main goes on to draw.
MainDone(f) ==
    /\ main.pc = "work"
    /\ BagIn(f, fetches) /\ f.st = "done"
    /\ fetches' = fetches (-) One(f)
    /\ main' = [main EXCEPT !.pc = "draw"]
    /\ UNCHANGED <<location, view, cache, loading, gos, mv, nextTexture,
                   moves, hist>>

\* location := grid.GetLocation(); grid.Drawable(); drawTile: the frame ends.
MainDraw ==
    /\ main.pc = "draw"
    /\ main' = [main EXCEPT !.pc = "poll", !.ran = 0]
    /\ UNCHANGED <<location, view, cache, loading, gos, fetches, mv,
                   nextTexture, moves, hist>>

\* cleanup(grid) that also closes the grid.
MainCleanupClose ==
    /\ main.pc = "cleanup"
    /\ main' = [Close(main) EXCEPT !.pc = "return"]
    /\ UNCHANGED <<location, view, cache, loading, gos, fetches, mv,
                   nextTexture, moves, hist>>

\* cleanup(grid): the textures of grid.All() are deleted.
MainCleanup ==
    /\ main.pc = "cleanup"
    /\ main' = [main EXCEPT !.pc = "return"]
    /\ UNCHANGED <<location, view, cache, loading, gos, fetches, mv,
                   nextTexture, moves, hist>>

\* main returns (its deferred calls close the window and terminate glfw):
\* the process ends with the goroutines wherever they are.
MainExit ==
    /\ main.pc = "return"
    /\ main' = [main EXCEPT !.pc = "exit"]
    /\ UNCHANGED <<location, view, cache, loading, gos, fetches, mv,
                   nextTexture, moves, hist>>

\* The program with its main loop: the grid main builds (four visible keys
\* in a small window), the tile server answering every request in one of its
\* ways, the frames of the main loop and the shutdown.
MainOrigins == {Coord(31 * TILE_X, 22 * TILE_Y, 6)}

InitMain == \E origin \in MainOrigins : NewTileGrid(origin, ViewSize, ViewSize)

NextMain ==
    \/ handleTileLoading
    \/ \E f \in BagToSet(fetches) : FetchReturn(f)
    \/ MainShouldClose
    \/ \E f \in BagToSet(fetches) : MainReceive(f)
    \/ MainDefault
    \/ \E f \in BagToSet(fetches) : MainRun(f)
    \/ \E f \in BagToSet(fetches) : MainRunError(f)
    \/ \E f \in BagToSet(fetches) : MainDone(f)
    \/ MainDraw
    \/ MainCleanup
    \/ MainExit

SpecMain == InitMain /\ [][NextMain]_vars

\* The program with every goroutine scheduled while the process runs.
SpecMainFair == SpecMain /\ WF_vars(NextMain)

\* ------------------------------------------------------------------- claims
\* Keys with a fetch goroutine or a goroutine of SetLocation.
FetchKeys == {f.key : f \in BagToSet(fetches)}

\* The fetches of k that have neither ended nor been cancelled.
LiveFetches(k) == {f \in BagToSet(fetches) : f.key = k /\ ~f.cancelled}

\* CancelLoadingTiles has returned and Move has not yet called SetLocation.
CancelReturned == mv.pc = "range" /\ mv.todo = {}

\* Every goroutine of SetLocation has run up to its send or returned.
Settled == \A g \in BagToSet(gos) : g.pc \in {"send", "parked"}

\* A load request for k is pending on TilesToLoad or was delivered to a fetch.
Requested(k) ==
    \/ \E g \in BagToSet(gos) : g.key = k /\ g.pc \in {"send", "parked"}
    \/ \E f \in BagToSet(fetches) : f.key = k

VisibleKeys ==
    {forEachVisibleTile(location, viewWidth, viewHeight)[i] :
        i \in DOMAIN forEachVisibleTile(location, viewWidth, viewHeight)}

\* C1: no key is in loading and in cache at the same time.
C1_Disjoint == loading \cap DOMAIN cache = {}

\* C2: for every key at most one fetch that has neither ended nor been
\* cancelled is in flight.
C2_OneFetchPerKey ==
    \A k \in FetchKeys :
        /\ Cardinality(LiveFetches(k)) <= 1
        /\ \A f \in LiveFetches(k) : CopiesIn(f, fetches) = 1

\* C3: after at least one Move call the zoom of the location lies in
\* [MIN_ZOOM, MAX_ZOOM], whatever the deltas were.
C3_ZoomInRange ==
    moves > 0 => (MIN_ZOOM <= location.Z /\ location.Z <= MAX_ZOOM)

\* The grid built at zoom 6 has been zoomed out by BigZoom levels: the pan
\* offset was halved once and the zoom stopped at MIN_ZOOM.
C3_Witness ==
    /\ moves >= 1 /\ mv.pc = "idle"
    /\ location.Z = MIN_ZOOM
    /\ location.X = (31 * TILE_X + 4) \div 2
    /\ location.Y = (22 * TILE_Y + 2) \div 2

\* C4: when the drain loop of a zoom Move is over, every fetch that was
\* inside tile.Tile when the Move began and still is has been cancelled.
C4_AllCancelled ==
    mv.pc = "range" => \A f \in BagToSet(fetches) : f.pre => f.cancelled

\* C5: when CancelLoadingTiles returns, no key that was in loading when the
\* Move began is in loading.
C5_LoadingCleared == CancelReturned => mv.atStart \cap loading = {}

\* C6: once CancelLoadingTiles has returned, no load request of an earlier
\* SetLocation is delivered to the fetch worker (before Move calls
\* SetLocation again every request is of an earlier SetLocation).
C6_NoStaleDelivery ==
    [][\A g \in BagToSet(gos) : WorkerReceive(g) => ~CancelReturned]_vars

\* C7: once SetLocation has been called and its goroutines have run, every
\* visible key is in cache, in loading, or has a load request pending on or
\* delivered through TilesToLoad.
C7_NoVisibleKeyIgnored ==
    (mv.pc = "idle" /\ Settled) =>
        \A k \in VisibleKeys : k \in DOMAIN cache \/ k \in loading \/ Requested(k)

\* The goroutines of the SetLocation of a Move have run; the visible key is
\* loading and none of them is left to request it.
C7_Witness ==
    /\ mv.pc = "idle" /\ Settled /\ moves >= 1
    /\ VisibleKeys \subseteq loading
    /\ gos = EmptyBag

\* C8: a fetch that ends with an error does not leave its key in loading.
C8_FailedFetchLeavesLoading ==
    [][\A f \in BagToSet(fetches) : FetchError(f) => f.key \notin loading']_vars

C10_SetTileIdempotent ==
    [][\A f \in BagToSet(fetches) : GLWorkOk(f) =>
          /\ Store(cache', f.key, PngTile(f.key, nextTexture)) = cache'
          /\ loading' \ {f.key} = loading'
          /\ f.key \in DOMAIN cache =>
                /\ Cardinality(DOMAIN cache') = Cardinality(DOMAIN cache)
                /\ cache'[f.key] = PngTile(f.key, nextTexture)
                /\ cache'[f.key] # cache[f.key]]_vars

\* A second completion of the same key has overwritten the tile of the first.
C10_Witness ==
    \E k \in DOMAIN cache : cache[k].Texture = 2 /\ Cardinality(DOMAIN cache) = 1

\* C11: Drawable returns the cache entries of the visible cells whose key the
\* cache holds, one per such cell and in the order of the scan, and nothing
\* else.
C11_DrawableVisibleCached ==
    LET keys == forEachVisibleTile(location, viewWidth, viewHeight)
        hit == {i \in DOMAIN keys : keys[i] \in DOMAIN cache}
        d == Drawable(location, viewWidth, viewHeight, cache)
    IN /\ Len(d) = Cardinality(hit)
       /\ \A i \in hit : d[Cardinality({j \in hit : j <= i})] = cache[keys[i]]

\* After a pan the cache holds a key that is no longer visible, a visible key
\* is not in the cache, and Drawable returns tiles of two keys.
C11_Witness ==
    /\ moves >= 1
    /\ \E k \in DOMAIN cache : k \notin VisibleKeys
    /\ \E k \in VisibleKeys : k \notin DOMAIN cache
    /\ LET d == Drawable(location, viewWidth, viewHeight, cache)
       IN \E i, j \in DOMAIN d : d[i].Tile # d[j].Tile

\* C12: no step removes a key from cache: once SetTile has stored a key it
\* stays, across zoom changes too.
C12_CacheRetained == [][DOMAIN cache \subseteq DOMAIN cache']_vars

\* The fetches whose cancel function has been called.
CancelledFetches(fs) == [f \in {x \in BagToSet(fs) : x.cancelled} |-> fs[f]]

\* C13: a Move with a zero zoom delta changes neither the fetches nor loading
\* nor cache and takes no sender off a channel, and outside the drain loop of
\* a zoom Move no step cancels a fetch.
C13_OnlyZoomCancels ==
    [][/\ (\E delta \in Deltas : MovePan(delta)) =>
             /\ UNCHANGED <<fetches, loading, cache>>
             /\ \A g \in BagToSet(gos) : CopiesIn(g, gos') >= CopiesIn(g, gos)
       /\ mv.pc # "drain" =>
             BagCardinality(CancelledFetches(fetches')) <=
                 BagCardinality(CancelledFetches(fetches))]_vars

\* A pan has just been made (its four goroutines have not run) while a
\* request was pending on TilesToLoad and a fetch offered its cancel function.
C13_Witness ==
    /\ hist # << >> /\ hist[Len(hist)].delta.Z = 0
    /\ \E g \in BagToSet(gos) : g.pc = "load" /\ CopiesIn(g, gos) = 4
    /\ \E g \in BagToSet(gos) : g.pc = "parked"
    /\ \E f \in BagToSet(fetches) : f.helper = "parked" /\ ~f.cancelled

\* The location the i-th Move call left behind, once that call has returned.
After(i) == IF i < Len(hist) THEN hist[i + 1].from ELSE location

\* The i-th Move call has returned.
Returned(i) == i < Len(hist) \/ mv.pc = "idle"

\* C14: a Move by one zoom level out followed by a Move by one level in, from
\* a zoom that neither Move clamps, gives zoom - 1 and then the zoom and the
\* pan offset the first Move found; Add alone does the same.
C14_ZoomRoundTrip ==
    /\ \A i \in 1..(Len(hist) - 1) :
          (/\ hist[i].delta = Coord(0, 0, -1)
           /\ hist[i + 1].delta = Coord(0, 0, 1)
           /\ MIN_ZOOM < hist[i].from.Z /\ hist[i].from.Z <= MAX_ZOOM
           /\ Returned(i + 1)) =>
              /\ After(i).Z = hist[i].from.Z - 1
              /\ After(i + 1) = hist[i].from
    /\ (/\ MIN_ZOOM < location.Z /\ location.Z <= MAX_ZOOM
        /\ AddExact(location, Coord(0, 0, -1))) =>
           Add(Add(location, Coord(0, 0, -1)), Coord(0, 0, 1)) = location

\* The grid built at the origin of main with an 800 x 600 viewport (three
\* tiles across, two down) has been zoomed out and back in.
C14_Witness ==
    /\ Len(hist) = 2 /\ mv.pc = "idle"
    /\ hist[1].delta = Coord(0, 0, -1) /\ hist[2].delta = Coord(0, 0, 1)
    /\ hist[1].from = Coord(31 * TILE_X, 22 * TILE_Y, 6)
    /\ ViewTileWidth = 3 /\ ViewTileHeight = 2
    /\ hist[2].from.X # (31 * TILE_X) \div 2

\* C15: the shift a zoom Move adds after CancelLoadingTiles is a quarter of
\* the viewport towards the origin on a zoom out and half of the viewport away
\* from it on a zoom in.
C15_RecenterByViewport ==
    [][MoveZoomEnd =>
          IF mv.delta.Z < 0
          THEN /\ 4 * (location'.X - location.X) = -viewWidth
               /\ 4 * (location'.Y - location.Y) = -viewHeight
          ELSE /\ 2 * (location'.X - location.X) = viewWidth
               /\ 2 * (location'.Y - location.Y) = viewHeight]_vars

\* The world coordinates the scan of forEachVisibleTile steps through along
\* one axis: from one tile before c up to half a tile past the viewport.
ScanSteps(c, tile, span) ==
    {v \in (c - tile)..(c + tile \div 2 + span - 1) : (v - (c - tile)) % tile = 0}

Max0(n) == IF n < 0 THEN 0 ELSE n

\* C16: every key forEachVisibleTile yields has X = max(0, floor(x / TILE_X))
\* and Y = max(0, floor(y / TILE_Y)) for its cell (x, y); no key has a negative
\* or wrapped-around index, and so has no goroutine SetLocation started.
C16_NoNegativeIndex ==
    LET keys == forEachVisibleTile(location, viewWidth, viewHeight)
        xs == ScanSteps(location.X, TILE_X, viewWidth)
        ys == ScanSteps(location.Y, TILE_Y, viewHeight)
    IN /\ Len(keys) = Cardinality(xs) * Cardinality(ys)
       /\ {keys[i] : i \in DOMAIN keys} =
             {TileCoord(Max0(x \div TILE_X), Max0(y \div TILE_Y), location.Z) :
                 x \in xs, y \in ys}
       /\ \A i \in DOMAIN keys :
             /\ 0 <= keys[i].X
             /\ keys[i].X <= Max0((location.X + TILE_X \div 2 + viewWidth) \div TILE_X)
             /\ 0 <= keys[i].Y
             /\ keys[i].Y <= Max0((location.Y + TILE_Y \div 2 + viewHeight) \div TILE_Y)
       /\ \A g \in BagToSet(gos) : g.key.X >= 0 /\ g.key.Y >= 0

\* A zoom out has re-centered the location to negative offsets; the scan
\* covers cells left of and above the origin and cells of index 1.
C16_Witness ==
    /\ hist # << >> /\ hist[Len(hist)].delta.Z < 0 /\ mv.pc = "idle"
    /\ location.X < 0 /\ location.Y < 0
    /\ \E k \in VisibleKeys : k.X = 1 /\ k.Y = 1
    /\ \E k \in VisibleKeys : k.X = 0 /\ k.Y = 0

\* C17: at location (0, 0, 6) with a 512 x 512 viewport the scan makes 4 x 4
\* calls and yields exactly the keys {0,1,2} x {0,1,2} at zoom 6; in every
\* state every yielded key has the zoom of the location.
C17_OriginScan ==
    LET keys == forEachVisibleTile(location, viewWidth, viewHeight)
    IN /\ \A i \in DOMAIN keys : keys[i].Z = location.Z
       /\ (location = Coord(0, 0, 6) /\ viewWidth = 512 /\ viewHeight = 512) =>
             /\ Len(keys) = 16
             /\ {keys[i] : i \in DOMAIN keys} =
                   {TileCoord(x, y, 6) : x \in 0..2, y \in 0..2}
             /\ keys[1] = TileCoord(0, 0, 6) /\ keys[16] = TileCoord(2, 2, 6)
             /\ hist = << >> => BagToSet(gos) = {Go(keys[i], "load") : i \in DOMAIN keys}

\* NewTileGrid has built that grid and started the sixteen goroutines.
C17_Witness ==
    /\ hist = << >>
    /\ location = Coord(0, 0, 6) /\ viewWidth = 512 /\ viewHeight = 512
    /\ BagCardinality(gos) = 16

\* C18: NewTileGrid returns no grid and starts no goroutine when a size
\* parameter is zero: the grid it returned has a viewport of positive width
\* and height.
C18_ZeroSizeRejected ==
    hist = << >> => (viewWidth # 0 /\ viewHeight # 0)

\* C19: a step that changes the viewport sets ViewTileWidth and
\* ViewTileHeight to the whole tiles across it and changes nothing else: no
\* goroutine is started, no request is sent, and the location, cache and
\* loading stay as they are.
C19_ResizeOnlyViewport ==
    [][view' # view =>
          /\ ViewTileWidth' = viewWidth' \div TILE_X
          /\ ViewTileHeight' = viewHeight' \div TILE_Y
          /\ UNCHANGED <<location, cache, loading, gos, fetches, mv>>]_vars

\* The viewport has been enlarged and no Move has followed: a key is visible
\* that no goroutine of SetLocation has been started for.
C19_Witness ==
    /\ viewWidth = 300 /\ viewHeight = 300 /\ cache # << >>
    /\ \E k \in VisibleKeys :
          k \notin DOMAIN cache /\ \A g \in BagToSet(gos) : g.key # k

\* C20: a zoom Move that has entered CancelLoadingTiles returns, whatever the
\* other goroutines do and whether or not the worker ever receives.
C20_MoveReturns == (mv.pc # "idle") ~> (mv.pc = "idle")

\* A zoom Move has returned after its drain loop called a cancel function;
\* requests are parked on TilesToLoad and no fetch has delivered a tile.
C20_Witness ==
    /\ hist # << >> /\ hist[Len(hist)].delta.Z # 0 /\ mv.pc = "idle"
    /\ \E f \in BagToSet(fetches) : f.cancelled
    /\ \E g \in BagToSet(gos) : g.pc = "parked"
    /\ \A f \in BagToSet(fetches) : f.st # "gl"
    /\ cache = << >>

\* C21: a goroutine of SetLocation that is parked in its send on TilesToLoad
\* has its key in loading.
C21_PendingSendInLoading ==
    \A g \in BagToSet(gos) : g.pc = "parked" => g.key \in loading

\* The fetches whose closure waits for or runs on the main loop.
GLFetches(fs) == [f \in {x \in BagToSet(fs) : x.st = "gl"} |-> fs[f]]

C23_NotFoundPlaceholder ==
    [][\A f \in BagToSet(fetches) : FetchReturn(f) =>
          /\ f.resp.status = 404 =>
                BagIn([f EXCEPT !.st = "gl", !.helper = "done",
                                !.tile = EmptyPngTile(f.key.X, f.key.Y, f.key.Z).tile],
                      fetches')
          /\ f.resp.status \notin {200, 404} =>
                /\ fetches' = fetches (-) One(f)
                /\ UNCHANGED <<cache, main>>]_vars

\* C24: Close is executed at most once and never on a grid whose channels
\* are already closed.
C24_CloseAtMostOnce == main.closes <= 1 /\ ~main.panicked

\* The window was closed and main has returned while handleTileLoading was
\* still in its range over TilesToLoad with fetches in flight.
C24_Witness ==
    /\ main.pc = "exit" /\ main.worker = "range"
    /\ fetches # EmptyBag /\ cache # << >>

\* C25: once the main loop has exited, Close is eventually executed: the
\* channels of the grid end up closed and the loop of handleTileLoading ends.
C25_ClosedOnShutdown ==
    (main.pc = "cleanup") ~> (main.closed /\ main.worker = "ended")

\* The fetch goroutines whose closure main has received and not yet
\* acknowledged on done.
OnMain == {f \in BagToSet(fetches) : f.st \in {"run", "done"}}

\* C26: a texture is created and SetTile is called only by main running a
\* closure it received from glWorkPipeline; a goroutine inside doWork ends
\* only after its closure has finished; main runs at most one closure per
\* frame, and none while it draws or cleans up.
C26_RenderThreadOnly ==
    [][/\ (nextTexture' # nextTexture \/ cache' # cache \/ loading \ loading' # {}) =>
             /\ main.pc = "work" /\ main'.pc = "work"
             /\ \E f \in OnMain : f.st = "run" /\ MainRun(f)
       /\ \A f \in BagToSet(fetches) :
             (f.st \in {"gl", "run"} /\ CopiesIn(f, fetches') < CopiesIn(f, fetches)) =>
                 BagCardinality(fetches') = BagCardinality(fetches)
       /\ main'.ran <= 1
       /\ Cardinality(OnMain) <= 1
       /\ \A f \in OnMain : CopiesIn(f, fetches) = 1 /\ main.pc = "work"
       /\ main.pc = "work" => OnMain # {}]_vars

\* main has run the closure of one fetch (its tile is in cache) and has not yet
\* released the goroutine, while another goroutine is parked in doWork.
C26_Witness ==
    /\ main.pc = "work" /\ main.ran = 1
    /\ \E f \in BagToSet(fetches) : f.st = "done" /\ f.key \in DOMAIN cache
    /\ \E f \in BagToSet(fetches) : f.st = "gl"

\* The location the grid was built at.
Built == IF hist = << >> THEN location ELSE hist[1].from

\* The locations the last n calls of SetLocation (the one of NewTileGrid
\* included) left behind.
RecentLocations(n) ==
    {IF i = 0 THEN Built ELSE After(i) :
        i \in {j \in 0..Len(hist) : j > Len(hist) - n}}

\* The keys visible at loc.
VisibleAt(loc) ==
    {forEachVisibleTile(loc, viewWidth, viewHeight)[i] :
        i \in DOMAIN forEachVisibleTile(loc, viewWidth, viewHeight)}

\* C27: when a Move has returned, no tile is cached whose zoom differs from
\* the zoom of the location and which was visible at none of the locations of
\* the retention window (here the last two calls of SetLocation).
C27_Eviction ==
    mv.pc = "idle" =>
        \A k \in DOMAIN cache :
            \/ k.Z = location.Z
            \/ \E loc \in RecentLocations(2) : k \in VisibleAt(loc)

\* The error tile.Tile returns for a status code other than 200.
StatusError(status) ==
    IF status = 404 THEN "NotFound"
    ELSE IF status = 403 THEN "Forbidden"
    ELSE IF status = 410 THEN "Gone"
    ELSE IF status = 414 THEN "RequestURITooLong"
    ELSE "UnexpectedStatusCode"

\* C28: for the request of every fetch inside tile.Tile, tile.Tile returns
\* exactly one of a tile and an error: on status 200 with a body that decodes,
\* a tile of the requested key with an image and no error; on every other
\* status no tile and the error of that status.
C28_TileResult ==
    \A f \in BagToSet(fetches) : f.st = "fetch" =>
        LET r == getPngTileFromAPI(FALSE, f.key.X, f.key.Y, f.key.Z, f.resp)
        IN /\ (r.tile = Nil) # (r.err = "nil")
           /\ (f.resp.status = 200 /\ f.resp.png) =>
                 /\ r.err = "nil" /\ r.tile # Nil
                 /\ r.tile[1].Tile = TileCoord(f.key.X, f.key.Y, f.key.Z)
                 /\ r.tile[1].Image # "nil"
           /\ f.resp.status \notin {0, 200} =>
                 r.tile = Nil /\ r.err = StatusError(f.resp.status)

\* Of two requests one was answered with a PNG, whose tile waits in doWork,
\* and the other is inside tile.Tile and will be answered with status 404.
C28_Witness ==
    /\ \E f \in BagToSet(fetches) :
          f.st = "gl" /\ f.tile # Nil /\ f.tile[1].Tile = f.key
    /\ \E f \in BagToSet(fetches) : f.st = "fetch" /\ f.resp.status = 404

\* The zoom clamped into [MIN_ZOOM, MAX_ZOOM].
Clamp(z) == IF z > MAX_ZOOM THEN MAX_ZOOM ELSE IF z < MIN_ZOOM THEN MIN_ZOOM ELSE z

\* C29: the location.Add(delta) of every Move halves the panned offset on a
\* negative zoom delta and doubles it on a positive one, also when the zoom
\* is clamped, only pans on a zero zoom delta, and clamps the zoom.
C29_AddScalesThenClamps ==
    [][\A delta \in MoveDeltas : (MovePan(delta) \/ MoveZoom(delta)) =>
          /\ location'.Z = Clamp(location.Z + delta.Z)
          /\ delta.Z < 0 =>
                /\ 2 * location'.X = location.X + delta.X
                /\ 2 * location'.Y = location.Y + delta.Y
          /\ delta.Z > 0 =>
                /\ location'.X = 2 * (location.X + delta.X)
                /\ location'.Y = 2 * (location.Y + delta.Y)
          /\ delta.Z = 0 =>
                /\ location'.X = location.X + delta.X
                /\ location'.Y = location.Y + delta.Y]_vars

\* A Move by one level in at zoom MAX_ZOOM has doubled the pan offset and
\* left the zoom at MAX_ZOOM.
C29_Witness ==
    /\ Len(hist) = 2 /\ mv.pc = "idle" /\ ViewTileWidth = 0
    /\ hist[2].from = Coord(2 * TILE_X, 2 * TILE_Y, MAX_ZOOM)
    /\ hist[2].delta = Coord(0, 0, 1)
    /\ location = Coord(4 * TILE_X, 4 * TILE_Y, MAX_ZOOM)

\* The goroutines of SetLocation parked in their send on TilesToLoad.
ParkedSenders(gs) == [g \in {x \in BagToSet(gs) : x.pc = "parked"} |-> gs[g]]

\* C30: a step that takes a request off TilesToLoad takes exactly one, and is
\* either the worker's receive, which starts exactly one fetch of that key
\* and changes neither map, or the drain's receive inside a zoom Move, which
\* starts no fetch, creates no texture and removes the key from loading; a
\* parked request can always be received by the worker.
C30_OneReceiver ==
    [][/\ BagCardinality(ParkedSenders(gos')) < BagCardinality(ParkedSenders(gos)) =>
             \E g \in BagToSet(ParkedSenders(gos)) :
                /\ gos' = gos (-) One(g)
                /\ \/ /\ \E f \in BagToSet(fetches') :
                            f.key = g.key /\ fetches' = fetches (+) One(f)
                      /\ UNCHANGED <<loading, cache, nextTexture>>
                   \/ /\ mv.pc = "drain"
                      /\ UNCHANGED <<fetches, nextTexture>>
                      /\ loading' = loading \ {g.key}
                      /\ DOMAIN cache' \subseteq DOMAIN cache
       /\ \A g \in BagToSet(ParkedSenders(gos)) : ENABLED WorkerReceive(g)]_vars

\* The drain loop of a zoom Move has taken the only request off TilesToLoad:
\* its key left loading though no tile was ever stored.
C30_Witness ==
    /\ mv.pc = "drain" /\ mv.atStart # {} /\ loading = {}
    /\ nextTexture = 1 /\ fetches = EmptyBag

\* The names of the textures loadTexture has created.
Textures == 1..(nextTexture - 1)

\* C31: every texture created so far is the Texture of exactly one entry of
\* cache, so the pass of cleanup over All() deletes each of them once.
C31_NoTextureLeak ==
    \A t \in Textures :
        Cardinality({k \in DOMAIN cache : cache[k].Texture = t}) = 1

\* The location the grid was built at and the locations the completed Move
\* calls left behind (a Move finds the location its predecessor left).
Committed ==
    {Built} \cup {hist[i].from : i \in DOMAIN hist}
            \cup (IF mv.pc = "idle" THEN {location} ELSE {})

\* The location the Move in progress will hand to SetLocation.
Pending ==
    IF mv.pc = "idle" THEN {} ELSE {Add(location, Recenter(mv.delta))}

\* C32: what the main loop reads through GetLocation is the initial location
\* or the final location of a Move (a completed one or, at the least, the
\* one in progress), never the value between location.Add(delta) and the
\* re-centering shift.
C32_CommittedLocation == GetLocation \in Committed \cup Pending

\* Every visible key is cached, nothing is loading and no Move is running.
Converged ==
    /\ mv.pc = "idle"
    /\ VisibleKeys \subseteq DOMAIN cache
    /\ loading = {}

\* C33: when every fetch and texture upload succeeds and every goroutine
\* keeps running, the grid ends up, once the Move calls have stopped, with
\* every visible key in cache and loading empty, and stays so.
C33_LoadingConverges == <>[]Converged

\* The n-th Move call was the last one and has returned.
LastMove(n) == Len(hist) = n /\ mv.pc = "idle"

\* C33, amended: the same, provided the window is not resized after the last
\* SetLocation (the one of the last Move call, or of NewTileGrid when there
\* is no Move call): Resize requests no tile.
C33_ConvergesUnlessResized ==
    \A n \in 0..MaxMoves : \A v \in OkViews :
        (<>[]LastMove(n) /\ [](LastMove(n) => <<viewWidth, viewHeight>> = v))
            => <>[]Converged

\* The window was widened, a zoom Move ran after it, and the grid has
\* converged: every visible key holds a texture loaded after an earlier one.
C33_Witness ==
    /\ Converged /\ hist # << >> /\ hist[Len(hist)].delta.Z # 0
    /\ gos = EmptyBag /\ fetches = EmptyBag
    /\ viewWidth = 3 * ViewSize
    /\ \A k \in VisibleKeys : cache[k].Texture >= 2

====
